---- MODULE Spec2Model ----
(***************************************************************************)
(* The WiFi reconnaissance engine of modules/wifi_recon.go (WiFiRecon):    *)
(* lifecycle (Start / Configure / Stop), the capture loop goroutine, the   *)
(* AP / client filters, statistics collection, AP and client discovery and *)
(* the deauthentication attack.                                            *)
(*                                                                         *)
(* The control plane (command handlers) is one thread; every capture loop  *)
(* is a goroutine of its own.  The registry (WiFi), the statistics         *)
(* (WiFiStats) and the module base (session.SessionModule) are not part of *)
(* the sources at hand: they are modelled from their described contract.   *)
(***************************************************************************)
EXTENDS Integers, Sequences, FiniteSets, TLC

(* ------------------------------ bounds --------------------------------- *)
\* successful Start() calls (capture handles activated) in one behaviour;
\* the restart specification allows one more
MaxStarts == 1
\* cap of every TrafficStats counter
MaxBytes == 2
\* transmission / construction failures injected into one deauth burst
MaxFailures == 1
\* the band of frequencies mhz2chan is called on, besides a few single ones
MinFreq == 2400
MaxFreq == 2500
\* the clock of the registry on its own stops here
MaxTime == 2
\* the liveness threshold of WasMissed, in ticks of that clock
Threshold == 0

(* --------------------------- program constants -------------------------- *)
\* for seq := uint16(0); seq < 64; seq++
BurstLen == 64
\* if freq <= 2484
Max24GHz == 2484
\* ((freq - 2412) / 5) + 1
Base24GHz == 2412

(* ------------------------------ domains -------------------------------- *)
\* net.HardwareAddr values: 0 is the empty address (make([]byte, 0) / nil)
NoAddr == 0
MACs == {1, 2}
\* network.BroadcastMac
BroadcastMac == 255
Addrs == MACs \cup {BroadcastMac}
Freqs == {2437}
SSIDs == {"", "net"}
FrameLens == {1}
Labels == {"pc"}
\* radiotap.ChannelFrequency is a uint16
ProbeFreqs == (MinFreq..MaxFreq) \cup {0, 2412, 2437, 2462, 2484, 2485, 5180, 65535}
\* the capture loops, one per successful Start()
Loops == 1..(MaxStarts + 1)

VARIABLES
    running,      \* SessionModule.Started
    handle,       \* w.handle: 0 is nil, n > 0 the n-th activated pcap handle
    opened,       \* the activated pcap handles not yet closed
    nhandles,     \* pcap handles activated so far
    ihandles,     \* inactive pcap handles created and not cleaned up
    wifi,         \* w.wifi != nil
    stations,     \* w.wifi.Stations: hardware address -> [essid, channel]
    aliases,      \* the alias store: hardware address -> label
    stats,        \* w.stats: address -> bytes
    accessPoint,  \* w.accessPoint (NoAddr: unset)
    client,       \* w.client (NoAddr: unset)
    loops,        \* the capture loop goroutines, by the Start() that spawned them
    deauth,       \* the startDeauth() call in progress on the control thread
    burst,        \* one sendDeauthPacket() call, frame by frame
    ret,          \* the last command of the control plane and what it returned
    crashed,      \* the process panicked
    lan,          \* a registry of package network on its own (NewLAN), with its clock
    chan          \* one call of mhz2chan: its argument and what it returned

vars == <<running, handle, opened, nhandles, ihandles, wifi, stations, aliases,
          stats, accessPoint, client, loops, deauth, burst, ret, crashed, lan, chan>>

\* what no operation of WiFiRecon touches
apart == <<lan, chan>>

\* the state of WiFiRecon but the value its last command returned
engine == <<running, handle, opened, nhandles, ihandles, wifi, stations, aliases,
            stats, accessPoint, client, loops, deauth, burst, crashed>>

(* ------------------------------ frames --------------------------------- *)
\* A decoded packet: the layers gopacket found and the fields the code reads.
\* Fields of an absent layer take a fixed value.  address4 is decoded only
\* for a WDS frame (toDS and fromDS both set).
Headers ==
    { [type |-> t, toDS |-> td, fromDS |-> fd, a1 |-> x1, a2 |-> x2, a3 |-> x3,
       a4 |-> IF td /\ fd THEN 1 ELSE NoAddr] :
        t \in {"Mgmt", "Data"}, td \in BOOLEAN, fd \in BOOLEAN,
        x1 \in {BroadcastMac, 1}, x2 \in MACs, x3 \in {2} }

NoHeader ==
    [type |-> "Mgmt", toDS |-> FALSE, fromDS |-> FALSE,
     a1 |-> NoAddr, a2 |-> NoAddr, a3 |-> NoAddr, a4 |-> NoAddr]

\* the information element: absent, another ID, or the SSID element
InfoElems ==
    {[ie |-> "none", ssid |-> ""], [ie |-> "other", ssid |-> ""]}
        \cup {[ie |-> "ssid", ssid |-> s] : s \in SSIDs}

Frames ==
    { [rt |-> r.rt, freq |-> r.freq, ie |-> i.ie, ssid |-> i.ssid,
       d11 |-> h.d11, hdr |-> h.hdr, len |-> n] :
        r \in {[rt |-> FALSE, freq |-> 0]} \cup {[rt |-> TRUE, freq |-> q] : q \in Freqs},
        i \in InfoElems,
        h \in {[d11 |-> FALSE, hdr |-> NoHeader]} \cup {[d11 |-> TRUE, hdr |-> x] : x \in Headers},
        n \in FrameLens }

(* ------------------------- pure helper functions ----------------------- *)
\* Go's a / b on int for b > 0: the quotient truncated toward zero
quo(a, b) == IF a >= 0 THEN a \div b ELSE -((-a) \div b)

\* mhz2chan testing freq < 2484
mhz2chanExclusive(freq) ==
    IF freq < Max24GHz THEN quo(freq - Base24GHz, 5) + 1 ELSE 0

\* func mhz2chan(freq int) int
mhz2chan(freq) ==
    IF freq <= Max24GHz THEN quo(freq - Base24GHz, 5) + 1 ELSE 0

\* WiFiStats.Collect(hw, bytes): adds bytes to hw's counter; the empty address
\* is a no-op
Collect(st, hw, n) ==
    IF hw = NoAddr THEN st ELSE [st EXCEPT ![hw] = @ + n]

\* AddIfNew storing every name it is given
AddIfNewLastName(sts, essid, hw, hasName, channel) ==
    IF hw \notin DOMAIN sts
    THEN [x \in DOMAIN sts \cup {hw} |->
            IF x = hw
            THEN [essid |-> IF hasName THEN essid ELSE "", channel |-> channel]
            ELSE sts[x]]
    ELSE [sts EXCEPT ![hw] =
            [essid |-> IF hasName THEN essid ELSE @.essid,
             channel |-> IF channel # 0 THEN channel ELSE @.channel]]

\* WiFi.AddIfNew(essid, mac, isAp, channel): creates the station when absent;
\* when present updates the channel if non-zero and the name only if one is
\* given and none is stored yet
AddIfNew(sts, essid, hw, hasName, channel) ==
    IF hw \notin DOMAIN sts
    THEN [x \in DOMAIN sts \cup {hw} |->
            IF x = hw
            THEN [essid |-> IF hasName THEN essid ELSE "", channel |-> channel]
            ELSE sts[x]]
    ELSE [sts EXCEPT ![hw] =
            [essid |-> IF hasName /\ @.essid = "" THEN essid ELSE @.essid,
             channel |-> IF channel # 0 THEN channel ELSE @.channel]]

NoStations == [x \in {} |-> [essid |-> "", channel |-> 0]]
NoAliases == [x \in {} |-> ""]

\* func (w *WiFiRecon) updateStats(packet gopacket.Packet)
updateStats(st, f) ==
    IF ~f.rt THEN st
    ELSE IF f.ie = "none" THEN st
    ELSE IF f.ie # "ssid" THEN st
    ELSE IF ~f.d11 THEN st
    ELSE Collect(Collect(Collect(Collect(st, f.hdr.a1, f.len),
                                 f.hdr.a2, f.len), f.hdr.a3, f.len), f.hdr.a4, f.len)

\* the pending registry call of a capture loop: none
NoCall == <<>>

\* func (w *WiFiRecon) discoverAccessPoints(packet gopacket.Packet), up to its
\* w.wifi.AddIfNew call: the call it is about to make, or none
discoverAccessPoints(f) ==
    IF ~f.rt THEN NoCall
    ELSE IF f.ie = "none" THEN NoCall
    ELSE IF f.ie # "ssid" THEN NoCall
    ELSE IF ~f.d11 THEN NoCall
    ELSE IF f.hdr.a1 = BroadcastMac /\ Len(f.ssid) > 0
         THEN <<[essid |-> f.ssid, hw |-> f.hdr.a3, hasName |-> TRUE,
                 channel |-> mhz2chan(f.freq)]>>
         ELSE NoCall

\* func (w *WiFiRecon) discoverClients(bs net.HardwareAddr, packet gopacket.Packet),
\* the tests that read the packet alone: the station-to-AP data frame found
\* (its BSSID still to be compared with bs), or none
clientFrame(f) ==
    IF ~f.rt THEN NoCall
    ELSE IF ~f.d11 THEN NoCall
    ELSE IF f.hdr.type # "Data" THEN NoCall
    ELSE IF f.hdr.toDS /\ ~f.hdr.fromDS
         THEN <<[bssid |-> f.hdr.a1, src |-> f.hdr.a2, channel |-> mhz2chan(f.freq)]>>
         ELSE NoCall

\* discoverClients: if bytes.Compare(bssid, bs) == 0 { ... w.wifi.AddIfNew("", src, false, channel) }
discoverClients(bs, c) ==
    IF c.bssid = bs
    THEN <<[essid |-> "", hw |-> c.src, hasName |-> FALSE, channel |-> c.channel]>>
    ELSE NoCall

\* no registry of package network has been built: hosts is the Endpoint
\* table, first / seen the FirstSeen / LastSeen of each Endpoint, newCb the
\* calls of the new-endpoint callback per address, alias the alias store, out
\* what the last call returned
NoLAN ==
    [built |-> FALSE, hosts |-> NoStations, first |-> <<>>, seen |-> <<>>,
     newCb |-> [a \in MACs |-> 0], alias |-> NoAliases, now |-> 0,
     out |-> [op |-> "none", val |-> FALSE]]

\* mhz2chan has not been called
NoChan == [pc |-> "idle", freq |-> 0, channel |-> 0]

(* --------------------------- initial state ------------------------------ *)
\* a capture loop goroutine: pc is "none" (not spawned), "spawned" (go cb()
\* issued), "reading" (blocked in range src.Packets()), "match" (client mode
\* selected, w.accessPoint not yet read for the discoverClients argument),
\* "add" (about to call w.wifi.AddIfNew) or "done"; h is the handle bound by
\* defer / NewPacketSource, mode the discovery mode of the iteration, sel the
\* w.accessPoint value its mode test read, arg the frame or call pending
NoLoop == [pc |-> "none", h |-> 0, mode |-> "", sel |-> NoAddr, arg |-> NoCall]

\* no startDeauth() call: ranging is TRUE while the call iterates
\* w.wifi.Stations, todo the targets not yet attacked, snap the registry's
\* stations when the call began, sent the sendDeauthPacket() calls made
NoDeauth ==
    [pc |-> "idle", ranging |-> FALSE, todo |-> {}, snap |-> {}, sent |-> <<>>]

\* no sendDeauthPacket() call stepped frame by frame
\* (pc "idle"); pc is "first" / "second" before the first / second frame of
\* sequence number seq, "done" after the return; tried are the sequence
\* numbers attempted, toAP / toClient the sequence numbers written with
\* destination ap / destination client, nAP / nClient the frames written,
\* bssids the BSSIDs they carried, fails the failures so far
NoBurst ==
    [pc |-> "idle", ap |-> NoAddr, cl |-> NoAddr, seq |-> 0, tried |-> {},
     toAP |-> {}, toClient |-> {}, nAP |-> 0, nClient |-> 0, bssids |-> {},
     fails |-> 0]

\* func NewWiFiRecon(s *session.Session) *WiFiRecon
Init ==
    /\ running = FALSE
    /\ handle = 0
    /\ opened = {}
    /\ nhandles = 0
    /\ ihandles = 0
    /\ wifi = FALSE
    /\ stations = NoStations
    /\ aliases = NoAliases
    /\ stats = [a \in Addrs |-> 0]
    /\ accessPoint = NoAddr
    /\ client = NoAddr
    /\ loops = [i \in Loops |-> NoLoop]
    /\ deauth = NoDeauth
    /\ burst = NoBurst
    /\ ret = "ok"
    /\ crashed = FALSE
    /\ lan = NoLAN
    /\ chan = NoChan

\* the control plane runs one command at a time
ControlIdle == ~crashed /\ deauth.pc = "idle" /\ burst.pc = "idle"

(* ------------------------------ lifecycle ------------------------------- *)
\* Configure without its deferred clean-up
CleanUpLeak(n) == n

\* defer ihandle.CleanUp()
CleanUp(n) == n - 1

\* func (w *WiFiRecon) Configure() error; fail is the step that fails:
\* 1 NewInactiveHandle, 2 SetRFMon, 3 SetSnapLen, 4 SetTimeout, 5 Activate,
\* 0 none
Configure(fail) ==
    IF fail = 1
    THEN UNCHANGED <<handle, opened, nhandles, ihandles, wifi, stations>>
    ELSE /\ ihandles' = CleanUp(ihandles + 1)
         /\ IF fail \in 2..4
            THEN UNCHANGED <<handle, opened, nhandles, wifi, stations>>
            ELSE IF fail = 5
            THEN /\ handle' = 0
                 /\ UNCHANGED <<opened, nhandles, wifi, stations>>
            ELSE /\ nhandles' = nhandles + 1
                 /\ handle' = nhandles + 1
                 /\ opened' = opened \cup {nhandles + 1}
                 /\ wifi' = TRUE
                 /\ stations' = NoStations

\* SessionModule.SetRunning(true, cb): sets the flag and issues go cb()
SetRunningTrue(k) ==
    /\ running' = TRUE
    /\ loops' = [loops EXCEPT ![k] = [NoLoop EXCEPT !.pc = "spawned"]]

\* Start without its w.Running() test
StartNoCheck(limit) ==
    /\ ControlIdle
    /\ \E fail \in 0..5 :
        /\ fail = 0 => nhandles < limit
        /\ Configure(fail)
        /\ IF fail # 0
           THEN /\ ret' = "config"
                /\ UNCHANGED <<running, loops>>
           ELSE /\ SetRunningTrue(nhandles + 1)
                /\ ret' = "ok"
    /\ UNCHANGED <<aliases, stats, accessPoint, client, deauth, burst, crashed>>
    /\ UNCHANGED apart

\* func (w *WiFiRecon) Start() error; limit bounds the calls that succeed
Start(limit) ==
    /\ ControlIdle
    /\ IF running
       THEN /\ ret' = "already"
            /\ UNCHANGED <<running, handle, opened, nhandles, ihandles, wifi,
                           stations, loops>>
       ELSE \E fail \in 0..5 :
            /\ fail = 0 => nhandles < limit
            /\ Configure(fail)
            /\ IF fail # 0
               THEN /\ ret' = "config"
                    /\ UNCHANGED <<running, loops>>
               ELSE /\ SetRunningTrue(nhandles + 1)
                    /\ ret' = "ok"
    /\ UNCHANGED <<aliases, stats, accessPoint, client, deauth, burst, crashed>>
    /\ UNCHANGED apart

\* SessionModule.SetRunning(false, nil): the not-running error when the
\* flag is clear already, else the flag is cleared
SetRunningFalse ==
    IF ~running
    THEN /\ ret' = "notrunning"
         /\ UNCHANGED running
    ELSE /\ running' = FALSE
         /\ ret' = "ok"

\* func (w *WiFiRecon) Stop() error
Stop ==
    /\ ControlIdle
    /\ SetRunningFalse
    /\ UNCHANGED <<handle, opened, nhandles, ihandles, wifi, stations, aliases,
                   stats, accessPoint, client, loops, deauth, burst, crashed>>
    /\ UNCHANGED apart

(* ----------------------------- capture loop ----------------------------- *)
\* the goroutine starts: defer w.handle.Close() and
\* gopacket.NewPacketSource(w.handle, w.handle.LinkType()) bind the handle the
\* engine holds at that moment; a nil handle panics
LoopInit(i) ==
    /\ ~crashed
    /\ loops[i].pc = "spawned"
    /\ IF handle = 0
       THEN /\ crashed' = TRUE
            /\ UNCHANGED loops
       ELSE /\ loops' = [loops EXCEPT ![i] = [@ EXCEPT !.pc = "reading", !.h = handle]]
            /\ UNCHANGED crashed
    /\ UNCHANGED <<running, handle, opened, nhandles, ihandles, wifi, stations,
                   aliases, stats, accessPoint, client, deauth, burst, ret>>
    /\ UNCHANGED apart

\* the deferred w.handle.Close() of a loop that leaves; closing a handle that
\* is closed already is undefined in libpcap
LoopExit(i) ==
    /\ loops' = [loops EXCEPT ![i] = [NoLoop EXCEPT !.pc = "done", !.h = loops[i].h]]
    /\ opened' = opened \ {loops[i].h}
    /\ crashed' \in (IF loops[i].h \in opened THEN {FALSE} ELSE {FALSE, TRUE})

\* for packet := range src.Packets() { if w.Running() == false { break } ...
LoopBreak(i) ==
    /\ ~crashed
    /\ loops[i].pc = "reading"
    /\ loops[i].h \in opened
    /\ ~running
    /\ LoopExit(i)
    /\ UNCHANGED <<running, handle, nhandles, ihandles, wifi, stations, aliases,
                   stats, accessPoint, client, deauth, burst, ret>>
    /\ UNCHANGED apart

\* the packet channel is closed (device error, or the handle was closed by
\* another loop): the range ends
LoopEOF(i) ==
    /\ ~crashed
    /\ loops[i].pc = "reading"
    /\ LoopExit(i)
    /\ UNCHANGED <<running, handle, nhandles, ihandles, wifi, stations, aliases,
                   stats, accessPoint, client, deauth, burst, ret>>
    /\ UNCHANGED apart

\* where an iteration goes after the mode test (line 396): back to the read
\* when the frame calls for no registry update, else on to the filter read
\* (client mode) or the AddIfNew call (AP mode)
AfterModeTest(l, f) ==
    IF accessPoint = NoAddr
    THEN IF discoverAccessPoints(f) = NoCall
         THEN l
         ELSE [l EXCEPT !.pc = "add", !.arg = discoverAccessPoints(f)]
    ELSE IF clientFrame(f) = NoCall
         THEN l
         ELSE [l EXCEPT !.pc = "match", !.mode = "clients", !.sel = accessPoint,
                        !.arg = clientFrame(f)]

\* one iteration up to the mode test: w.updateStats(packet);
\* if len(w.accessPoint) == 0 { ... } else { ... }
LoopFrame(i) ==
    /\ ~crashed
    /\ loops[i].pc = "reading"
    /\ loops[i].h \in opened
    /\ running
    /\ \E f \in Frames :
        /\ stats' = updateStats(stats, f)
        /\ \A a \in Addrs : stats'[a] <= MaxBytes
        /\ loops' = [loops EXCEPT ![i] = AfterModeTest(@, f)]
    /\ UNCHANGED <<running, handle, opened, nhandles, ihandles, wifi, stations,
                   aliases, accessPoint, client, deauth, burst, ret, crashed>>
    /\ UNCHANGED apart

\* w.discoverClients(w.accessPoint, packet): the filter is read again for the
\* argument and compared with the frame's BSSID
LoopMatch(i) ==
    /\ ~crashed
    /\ loops[i].pc = "match"
    /\ loops' = [loops EXCEPT ![i] =
                    IF discoverClients(accessPoint, loops[i].arg[1]) = NoCall
                    THEN [NoLoop EXCEPT !.pc = "reading", !.h = loops[i].h]
                    ELSE [NoLoop EXCEPT
                            !.pc = "add", !.h = loops[i].h,
                            !.arg = discoverClients(accessPoint, loops[i].arg[1])]]
    /\ UNCHANGED <<running, handle, opened, nhandles, ihandles, wifi, stations,
                   aliases, stats, accessPoint, client, deauth, burst, ret, crashed>>
    /\ UNCHANGED apart

\* w.wifi.AddIfNew(...) of either discovery.  A station inserted while
\* startDeauth() ranges over the same map (stations of the range still to
\* come) is a data race: the iteration may visit it, miss it, or the runtime
\* may abort
LoopAdd(i) ==
    /\ ~crashed
    /\ loops[i].pc = "add"
    /\ stations' = AddIfNew(stations, loops[i].arg[1].essid, loops[i].arg[1].hw,
                            loops[i].arg[1].hasName, loops[i].arg[1].channel)
    /\ loops' = [loops EXCEPT ![i] = [NoLoop EXCEPT !.pc = "reading", !.h = loops[i].h]]
    /\ IF deauth.ranging /\ deauth.todo # {} /\ DOMAIN stations' # DOMAIN stations
       THEN \/ /\ deauth' \in {deauth,
                               [deauth EXCEPT !.todo = @ \cup (DOMAIN stations' \ DOMAIN stations)]}
               /\ UNCHANGED crashed
            \/ /\ crashed' = TRUE
               /\ UNCHANGED deauth
       ELSE UNCHANGED <<deauth, crashed>>
    /\ UNCHANGED <<running, handle, opened, nhandles, ihandles, wifi, aliases,
                   stats, accessPoint, client, burst, ret>>
    /\ UNCHANGED apart

(* ------------------------------- filters -------------------------------- *)
\* WiFi.Clear(): removes all stations
Clear(sts) == NoStations

\* "wifi.recon set bs MAC" without its w.wifi.Clear()
SetBSKeepsStations(m) ==
    /\ ControlIdle
    /\ stations' = stations
    /\ accessPoint' = m
    /\ ret' = "ok"
    /\ UNCHANGED <<running, handle, opened, nhandles, ihandles, wifi, aliases,
                   stats, client, loops, deauth, burst, crashed>>
    /\ UNCHANGED apart

\* handler "wifi.recon set bs MAC"
SetBS(m) ==
    /\ ControlIdle
    /\ stations' = IF wifi THEN Clear(stations) ELSE stations
    /\ accessPoint' = m
    /\ ret' = "ok"
    /\ UNCHANGED <<running, handle, opened, nhandles, ihandles, wifi, aliases,
                   stats, client, loops, deauth, burst, crashed>>
    /\ UNCHANGED apart

\* "wifi.recon clear bs" resetting the statistics with the registry
ClearBSResetsStats ==
    /\ ControlIdle
    /\ stations' = IF wifi THEN Clear(stations) ELSE stations
    /\ stats' = [a \in Addrs |-> 0]
    /\ accessPoint' = NoAddr
    /\ ret' = "ok"
    /\ UNCHANGED <<running, handle, opened, nhandles, ihandles, wifi, aliases,
                   client, loops, deauth, burst, crashed>>
    /\ UNCHANGED apart

\* handler "wifi.recon clear bs"
ClearBS ==
    /\ ControlIdle
    /\ stations' = IF wifi THEN Clear(stations) ELSE stations
    /\ accessPoint' = NoAddr
    /\ ret' = "ok"
    /\ UNCHANGED <<running, handle, opened, nhandles, ihandles, wifi, aliases,
                   stats, client, loops, deauth, burst, crashed>>
    /\ UNCHANGED apart

\* handler "wifi.recon set client MAC"
SetClient(m) ==
    /\ ControlIdle
    /\ client' = m
    /\ ret' = "ok"
    /\ UNCHANGED <<running, handle, opened, nhandles, ihandles, wifi, stations,
                   aliases, stats, accessPoint, loops, deauth, burst, crashed>>
    /\ UNCHANGED apart

\* handler "wifi.recon clear client"
ClearClient ==
    /\ ControlIdle
    /\ client' = NoAddr
    /\ ret' = "ok"
    /\ UNCHANGED <<running, handle, opened, nhandles, ihandles, wifi, stations,
                   aliases, stats, accessPoint, loops, deauth, burst, crashed>>
    /\ UNCHANGED apart

\* WiFi.SetAliasFor(mac, alias): false for an unknown station, else stores the
\* label
SetAliasFor(m, label) ==
    /\ ControlIdle
    /\ wifi
    /\ IF m \in DOMAIN stations
       THEN /\ aliases' = [x \in DOMAIN aliases \cup {m} |->
                              IF x = m THEN label ELSE aliases[x]]
            /\ ret' = "ok"
       ELSE /\ ret' = "unknown"
            /\ UNCHANGED aliases
    /\ UNCHANGED <<running, handle, opened, nhandles, ihandles, wifi, stations,
                   stats, accessPoint, client, loops, deauth, burst, crashed>>
    /\ UNCHANGED apart

(* ---------------------------- deauth attack ----------------------------- *)
\* startDeauth testing isTargetingAP || isTargetingCLI
StartDeauthAnyTarget ==
    /\ ControlIdle
    /\ IF ~(accessPoint # NoAddr \/ client # NoAddr)
       THEN /\ ret' = "notarget"
            /\ UNCHANGED <<deauth, crashed>>
       ELSE IF client # NoAddr
       THEN /\ deauth' = [pc |-> "iter", ranging |-> FALSE, todo |-> {client},
                          snap |-> DOMAIN stations, sent |-> <<>>]
            /\ UNCHANGED <<ret, crashed>>
       ELSE IF ~wifi
       THEN /\ crashed' = TRUE
            /\ UNCHANGED <<deauth, ret>>
       ELSE /\ deauth' = [pc |-> "iter", ranging |-> TRUE, todo |-> DOMAIN stations,
                          snap |-> DOMAIN stations, sent |-> <<>>]
            /\ UNCHANGED <<ret, crashed>>
    /\ UNCHANGED <<running, handle, opened, nhandles, ihandles, wifi, stations,
                   aliases, stats, accessPoint, client, loops, burst>>
    /\ UNCHANGED apart

\* func (w *WiFiRecon) startDeauth() error, up to its first
\* sendDeauthPacket() call: the target test, and the targets selected.
\* Ranging over w.wifi.Stations with no registry is a nil dereference
StartDeauth ==
    /\ ControlIdle
    /\ IF ~(accessPoint # NoAddr)
       THEN /\ ret' = "notarget"
            /\ UNCHANGED <<deauth, crashed>>
       ELSE IF client # NoAddr
       THEN /\ deauth' = [pc |-> "iter", ranging |-> FALSE, todo |-> {client},
                          snap |-> DOMAIN stations, sent |-> <<>>]
            /\ UNCHANGED <<ret, crashed>>
       ELSE IF ~wifi
       THEN /\ crashed' = TRUE
            /\ UNCHANGED <<deauth, ret>>
       ELSE /\ deauth' = [pc |-> "iter", ranging |-> TRUE, todo |-> DOMAIN stations,
                          snap |-> DOMAIN stations, sent |-> <<>>]
            /\ UNCHANGED <<ret, crashed>>
    /\ UNCHANGED <<running, handle, opened, nhandles, ihandles, wifi, stations,
                   aliases, stats, accessPoint, client, loops, burst>>
    /\ UNCHANGED apart

\* one w.sendDeauthPacket(w.accessPoint, target) call of startDeauth(): it
\* writes to w.handle; a nil handle panics, a closed one is used after free
DeauthStep ==
    /\ ~crashed
    /\ deauth.pc = "iter"
    /\ \E s \in deauth.todo :
        /\ deauth' = [deauth EXCEPT !.todo = @ \ {s},
                                    !.sent = Append(@, <<accessPoint, s>>)]
        /\ crashed' \in (IF handle = 0 THEN {TRUE}
                         ELSE IF handle \in opened THEN {FALSE}
                         ELSE {FALSE, TRUE})
    /\ UNCHANGED <<running, handle, opened, nhandles, ihandles, wifi, stations,
                   aliases, stats, accessPoint, client, loops, burst, ret>>
    /\ UNCHANGED apart

\* startDeauth() returns nil
DeauthReturn ==
    /\ ~crashed
    /\ deauth.pc = "iter"
    /\ deauth.todo = {}
    /\ deauth' = NoDeauth
    /\ ret' = "ok"
    /\ UNCHANGED <<running, handle, opened, nhandles, ihandles, wifi, stations,
                   aliases, stats, accessPoint, client, loops, burst, crashed>>
    /\ UNCHANGED apart

(* ------------------------ one burst, frame by frame --------------------- *)
\* the rest of the engine while the control thread is inside sendDeauthPacket()
BurstFrame ==
    UNCHANGED <<running, handle, opened, nhandles, ihandles, wifi, stations,
                aliases, stats, accessPoint, client, loops, deauth, ret, crashed,
                lan, chan>>

\* the loop header testing seq <= 64
NextSeqInclusive(b) ==
    IF b.seq + 1 <= BurstLen
    THEN [b EXCEPT !.seq = @ + 1, !.pc = "first"]
    ELSE [b EXCEPT !.seq = @ + 1, !.pc = "done"]

\* the loop header after an iteration: seq++, and the return once seq < 64
\* fails
NextSeq(b) ==
    IF b.seq + 1 < BurstLen
    THEN [b EXCEPT !.seq = @ + 1, !.pc = "first"]
    ELSE [b EXCEPT !.seq = @ + 1, !.pc = "done"]

\* a failed packet returning from sendDeauthPacket
ContinueAsReturn(b) == [b EXCEPT !.fails = @ + 1, !.pc = "done"]

\* a failed packets.NewDot11Deauth or w.handle.WritePacketData: log.Error and
\* continue
Continue(b) == NextSeq([b EXCEPT !.fails = @ + 1])

\* packets.NewDot11Deauth(ap, client, ap, ..., seq) built and written, then
\* time.Sleep
sendDeauthPacketFirst ==
    /\ burst.pc = "first"
    /\ burst' = [burst EXCEPT !.pc = "second",
                              !.tried = @ \cup {burst.seq},
                              !.toAP = @ \cup {burst.seq},
                              !.nAP = @ + 1,
                              !.bssids = @ \cup {burst.ap}]
    /\ BurstFrame

\* the first frame of a sequence number fails, in its construction or its
\* transmission
sendDeauthPacketFirstFails ==
    /\ burst.pc = "first"
    /\ burst.fails < MaxFailures
    /\ \E step \in {"NewDot11Deauth", "WritePacketData"} :
        burst' = Continue([burst EXCEPT !.tried = @ \cup {burst.seq}])
    /\ BurstFrame

\* packets.NewDot11Deauth(client, ap, ap, ..., seq) built and written, then
\* time.Sleep and the next sequence number
sendDeauthPacketSecond ==
    /\ burst.pc = "second"
    /\ burst' = NextSeq([burst EXCEPT !.toClient = @ \cup {burst.seq},
                                      !.nClient = @ + 1,
                                      !.bssids = @ \cup {burst.ap}])
    /\ BurstFrame

\* the second frame of a sequence number fails
sendDeauthPacketSecondFails ==
    /\ burst.pc = "second"
    /\ burst.fails < MaxFailures
    /\ \E step \in {"NewDot11Deauth", "WritePacketData"} :
        burst' = Continue(burst)
    /\ BurstFrame

(* --------------------------- specification ------------------------------ *)
\* the capture loop goroutines
Capture ==
    \/ \E i \in Loops : LoopInit(i)
    \/ \E i \in Loops : LoopEOF(i)
    \/ \E i \in Loops : LoopFrame(i)
    \/ \E i \in Loops : LoopMatch(i)
    \/ \E i \in Loops : LoopAdd(i)

\* the whole engine
Next ==
    \/ Start(MaxStarts)
    \/ Stop
    \/ \E i \in Loops : LoopBreak(i)
    \/ Capture
    \/ \E m \in MACs : SetBS(m)
    \/ ClearBS
    \/ \E m \in MACs : SetClient(m)
    \/ ClearClient
    \/ \E m \in MACs, l \in Labels : SetAliasFor(m, l)
    \/ StartDeauth
    \/ DeauthStep
    \/ DeauthReturn

Spec == Init /\ [][Next]_vars

\* reconnaissance alone: the lifecycle, the capture loops and the AP filter
NextRecon ==
    \/ Start(MaxStarts)
    \/ Stop
    \/ \E i \in Loops : LoopBreak(i)
    \/ Capture
    \/ \E m \in MACs : SetBS(m)
    \/ ClearBS

SpecRecon == Init /\ [][NextRecon]_vars

\* reconnaissance with one more restart
NextRestart ==
    \/ Start(MaxStarts + 1)
    \/ Stop
    \/ \E i \in Loops : LoopBreak(i)
    \/ Capture
    \/ \E m \in MACs : SetBS(m)
    \/ ClearBS

SpecRestart == Init /\ [][NextRestart]_vars

\* the statistics over restarts: AP discovery alone, the registry cleared by
\* "clear bs"
NextStats ==
    \/ Start(MaxStarts + 1)
    \/ Stop
    \/ \E i \in Loops : LoopBreak(i)
    \/ \E i \in Loops : LoopInit(i)
    \/ \E i \in Loops : LoopEOF(i)
    \/ \E i \in Loops : LoopFrame(i)
    \/ \E i \in Loops : LoopAdd(i)
    \/ ClearBS

SpecStats == Init /\ [][NextStats]_vars

\* an attack session: the engine is started and never stopped
NextAttack ==
    \/ Start(MaxStarts)
    \/ Capture
    \/ \E m \in MACs : SetBS(m)
    \/ ClearBS
    \/ \E m \in MACs : SetClient(m)
    \/ ClearClient
    \/ \E m \in MACs, l \in Labels : SetAliasFor(m, l)
    \/ StartDeauth
    \/ DeauthStep
    \/ DeauthReturn

SpecAttack == Init /\ [][NextAttack]_vars

\* one call sendDeauthPacket(ap, client) on a started engine, frame by frame
InitBurst ==
    /\ running = TRUE
    /\ handle = 1
    /\ opened = {1}
    /\ nhandles = 1
    /\ ihandles = 0
    /\ wifi = TRUE
    /\ stations = NoStations
    /\ aliases = NoAliases
    /\ stats = [a \in Addrs |-> 0]
    /\ \E ap \in MACs, cl \in MACs :
        /\ accessPoint = ap
        /\ client = cl
        /\ burst = [NoBurst EXCEPT !.pc = "first", !.ap = ap, !.cl = cl]
    /\ loops = [i \in Loops |-> IF i = 1 THEN [NoLoop EXCEPT !.pc = "reading", !.h = 1]
                                ELSE NoLoop]
    /\ deauth = [NoDeauth EXCEPT !.pc = "iter"]
    /\ ret = "ok"
    /\ crashed = FALSE
    /\ lan = NoLAN
    /\ chan = NoChan

NextBurst ==
    \/ sendDeauthPacketFirst
    \/ sendDeauthPacketFirstFails
    \/ sendDeauthPacketSecond
    \/ sendDeauthPacketSecondFails

SpecBurst == InitBurst /\ [][NextBurst]_vars

(* ------------------ the registry of package network ------------------- *)
\* hardware addresses as callers write them, and their canonical form
RawMACs == (MACs \X {"lower"}) \cup {<<1, "upper">>}
Canon(raw) == raw[1]

\* the names and channels AddIfNew is called with: a name goes with
\* hasName = true and is not empty (wifi_recon.go:307-310), no name with
\* hasName = false (340)
LanNames == {"lab-net", "other"}
LanChannels == {0, 6}
LanCalls ==
    [essid : LanNames, hasName : {TRUE}, channel : {6}]
        \cup [essid : {""}, hasName : {FALSE}, channel : LanChannels]

\* AliasStore.Get(hwAddr): the label, or empty
Get(al, a) == IF a \in DOMAIN al THEN al[a] ELSE ""

\* the alias stores NewLAN may load
StoredAliases == {NoAliases, [a \in {1} |-> "picat"]}

\* f with x bound to v
Put(f, x, v) == [y \in DOMAIN f \cup {x} |-> IF y = x THEN v ELSE f[y]]

\* AddIfNew firing the new-endpoint callback on every call
AddIfNewAtAlwaysNew(l, essid, raw, hasName, channel) ==
    [l EXCEPT !.hosts = AddIfNew(l.hosts, essid, Canon(raw), hasName, channel),
              !.first = IF Canon(raw) \in DOMAIN l.hosts THEN @ ELSE Put(@, Canon(raw), l.now),
              !.seen = Put(@, Canon(raw), l.now),
              !.newCb = [@ EXCEPT ![Canon(raw)] = @ + 1]]

\* AddIfNew(name, hwAddr, hasName, channel) with its timestamps and callback:
\* an absent address gets an Endpoint with FirstSeen = LastSeen = now and
\* onNew is invoked; a present one has LastSeen updated
AddIfNewAt(l, essid, raw, hasName, channel) ==
    [l EXCEPT !.hosts = AddIfNew(l.hosts, essid, Canon(raw), hasName, channel),
              !.first = IF Canon(raw) \in DOMAIN l.hosts THEN @ ELSE Put(@, Canon(raw), l.now),
              !.seen = Put(@, Canon(raw), l.now),
              !.newCb = IF Canon(raw) \in DOMAIN l.hosts THEN @
                        ELSE [@ EXCEPT ![Canon(raw)] = @ + 1]]

\* WasMissed answering by FirstSeen
WasMissedSinceFirst(l, a) ==
    /\ a \in DOMAIN l.hosts
    /\ l.now - l.first[a] > Threshold

\* WasMissed(hwAddr): false if unknown, else now - LastSeen > threshold
WasMissed(l, a) ==
    /\ a \in DOMAIN l.hosts
    /\ l.now - l.seen[a] > Threshold

\* buildExampleLAN(): NewLAN(iface, gateway, exNewCallback, exLostCallback)
NewLAN ==
    /\ ~lan.built
    /\ \E al \in StoredAliases : lan' = [NoLAN EXCEPT !.built = TRUE, !.alias = al]
    /\ UNCHANGED <<engine, ret, chan>>

\* exampleLAN.hosts[exampleEndpoint.HwAddress] = exampleEndpoint, the
\* Endpoint just built, on a registry that does not hold it
PutHost(a) ==
    /\ lan.built
    /\ a \notin DOMAIN lan.hosts
    /\ lan' = [lan EXCEPT !.hosts = Put(@, a, [essid |-> "", channel |-> 0]),
                          !.first = Put(@, a, lan.now),
                          !.seen = Put(@, a, lan.now)]
    /\ UNCHANGED <<engine, ret, chan>>

\* lan.AddIfNew(...)
LanAddIfNew(raw, c) ==
    /\ lan.built
    /\ lan' = AddIfNewAt(lan, c.essid, raw, c.hasName, c.channel)
    /\ UNCHANGED <<engine, ret, chan>>

\* setting an alias on an address the registry does not hold
LanSetAliasForAnyone(a, label) ==
    /\ lan.built
    /\ lan' = [lan EXCEPT !.alias = Put(@, a, label),
                          !.out = [op |-> "SetAliasFor", val |-> TRUE]]
    /\ UNCHANGED <<engine, ret, chan>>

\* exampleLAN.SetAliasFor(exampleEndpoint.HwAddress, exampleAlias)
LanSetAliasFor(a, label) ==
    /\ lan.built
    /\ IF a \in DOMAIN lan.hosts
       THEN lan' = [lan EXCEPT !.alias = Put(@, a, label),
                               !.out = [op |-> "SetAliasFor", val |-> TRUE]]
       ELSE lan' = [lan EXCEPT !.out = [op |-> "SetAliasFor", val |-> FALSE]]
    /\ UNCHANGED <<engine, ret, chan>>

\* exampleLAN.WasMissed(exampleEndpoint.HwAddress)
LanWasMissed(a) ==
    /\ lan.built
    /\ lan' = [lan EXCEPT !.out = [op |-> "WasMissed", val |-> WasMissed(lan, a)]]
    /\ UNCHANGED <<engine, ret, chan>>

\* time passes
Tick ==
    /\ lan.built
    /\ lan.now < MaxTime
    /\ lan' = [lan EXCEPT !.now = @ + 1]
    /\ UNCHANGED <<engine, ret, chan>>

\* the Endpoint table: observations over time
NextRegistry ==
    \/ NewLAN
    \/ \E a \in MACs : PutHost(a)
    \/ \E raw \in RawMACs, c \in LanCalls : LanAddIfNew(raw, c)
    \/ Tick

SpecRegistry == Init /\ [][NextRegistry]_vars

\* the Endpoint table and its aliases
NextAliases ==
    \/ NewLAN
    \/ \E a \in MACs : PutHost(a)
    \/ \E a \in MACs, l \in Labels : LanSetAliasFor(a, l)
    \/ Tick

SpecAliases == Init /\ [][NextAliases]_vars

\* the Endpoint table and the liveness query
NextLiveness ==
    \/ NewLAN
    \/ \E a \in MACs : PutHost(a)
    \/ \E raw \in RawMACs, c \in LanCalls : LanAddIfNew(raw, c)
    \/ \E a \in MACs : LanWasMissed(a)
    \/ Tick

SpecLiveness == Init /\ [][NextLiveness]_vars

(* ------------------------------ mhz2chan -------------------------------- *)
\* channel := mhz2chan(int(radiotap.ChannelFrequency)): the call
CallMhz2chan ==
    /\ chan.pc = "idle"
    /\ \E f \in ProbeFreqs : chan' = [pc |-> "called", freq |-> f, channel |-> 0]
    /\ UNCHANGED <<engine, ret, lan>>

\* ... and its return
ReturnMhz2chan ==
    /\ chan.pc = "called"
    /\ chan' = [chan EXCEPT !.pc = "returned", !.channel = mhz2chan(chan.freq)]
    /\ UNCHANGED <<engine, ret, lan>>

\* mhz2chan alone
NextChannel ==
    \/ CallMhz2chan
    \/ ReturnMhz2chan

SpecChannel == Init /\ [][NextChannel]_vars

(* ------------------------------- claims --------------------------------- *)
\* C1: Start() while Running returns the already-running error and Stop()
\* while Idle the not-running error, and neither changes the running flag,
\* the capture handle, the registry, the filters or the capture loops
C1_LifecycleErrorsChangeNothing ==
    [][ /\ (Start(MaxStarts) /\ running) => (ret' = "already" /\ UNCHANGED engine)
        /\ (Stop /\ ~running) => (ret' = "notrunning" /\ UNCHANGED engine) ]_vars

\* C1 witness: Start() has returned the already-running error on an engine
\* whose loop is reading and whose registry holds a station
C1_Witness ==
    /\ ret = "already"
    /\ running
    /\ DOMAIN stations # {}
    /\ \E i \in Loops : loops[i].pc = "reading"

\* C3 as stated: after a Start() that Configure() failed the engine is Idle,
\* no loop was launched, no inactive handle is left and the engine holds no
\* open capture handle
C3_NoOpenHandleAfterFailedStart ==
    [][ (Start(MaxStarts) /\ ~running /\ ret' = "config") =>
            /\ running' = FALSE
            /\ loops' = loops
            /\ ihandles' = 0
            /\ handle' \notin opened' ]_vars

\* C3 amended: after a Start() that Configure() failed the engine is Idle, no
\* loop was launched, no inactive handle is left and no capture handle was
\* opened: the open handles are those open before, and the engine's handle
\* is the one it held before, or nil when the activation failed
C3_FailedStartOpensNothing ==
    [][ (Start(MaxStarts) /\ ~running /\ ret' = "config") =>
            /\ running' = FALSE
            /\ loops' = loops
            /\ ihandles' = 0
            /\ opened' = opened
            /\ nhandles' = nhandles
            /\ handle' \in {handle, 0} ]_vars

\* C3 witness: a Start() failed in its activation after an earlier capture:
\* the engine is Idle and holds no handle
C3_Witness ==
    /\ ret = "config"
    /\ ~running
    /\ nhandles > 0
    /\ handle = 0
    /\ ihandles = 0

\* C4: StartDeauth() with no AP filter returns the no-target error, calls
\* sendDeauthPacket for no one and changes nothing, whatever the client
\* filter and the registry
C4_NoTargetNoFrames ==
    [][ (StartDeauth /\ accessPoint = NoAddr) =>
            (ret' = "notarget" /\ UNCHANGED engine) ]_vars

\* C4 witness: the no-target error was returned with a client filter set and
\* a station in the registry
C4_Witness ==
    /\ ret = "notarget"
    /\ accessPoint = NoAddr
    /\ client # NoAddr
    /\ DOMAIN stations # {}
    /\ deauth = NoDeauth

\* a Stop() has succeeded since loop i was launched (the flag is clear, or a
\* later Start() has set it again) and the loop is about to dequeue
StopPending(i) ==
    /\ loops[i].pc = "reading"
    /\ loops[i].h \in opened
    /\ (~running \/ loops[i].h < nhandles)

\* C2: after a successful Stop() the next frame loop i dequeues updates
\* neither TrafficStats nor the registry, the loop exits and the handle it was
\* started with is released
C2_StopObservedOnNextFrame ==
    [][ \A i \in Loops :
            (StopPending(i) /\ (LoopFrame(i) \/ LoopBreak(i))) =>
                /\ stats' = stats
                /\ stations' = stations
                /\ loops'[i].pc = "done"
                /\ loops[i].h \notin opened' ]_vars

\* the bursts startDeauth() owes: the pair of the two filters, or one pair
\* per station of the registry at the call
Targets ==
    IF client # NoAddr
    THEN {<<accessPoint, client>>}
    ELSE {<<accessPoint, s>> : s \in deauth.snap}

\* C5: StartDeauth() with an AP filter set returns after exactly one burst
\* against (AP filter, client filter) when the client filter is set, else
\* after exactly one burst against (AP filter, s) for every station s the
\* registry held at the call, and no other burst
C5_DeauthTargets ==
    [][ DeauthReturn =>
            /\ {deauth.sent[n] : n \in 1..Len(deauth.sent)} = Targets
            /\ Len(deauth.sent) = Cardinality(Targets) ]_vars

\* C6: a burst without a failed packet has sent 128 frames, one per sequence
\* number 0..63 in each spoofed direction, all with the AP as BSSID
C6_FullBurst ==
    (burst.pc = "done" /\ burst.fails = 0) =>
        /\ burst.nAP + burst.nClient = 128
        /\ burst.nAP = 64
        /\ burst.nClient = 64
        /\ burst.toAP = 0..63
        /\ burst.toClient = 0..63
        /\ burst.bssids = {burst.ap}

\* C6 witness: a burst has returned without a failed packet
C6_Witness ==
    /\ burst.pc = "done"
    /\ burst.fails = 0
    /\ burst.nAP > 0

\* C7: a failed packet never ends the burst: until sequence number 63 is
\* done the burst has a next step, every sequence number below the current
\* one has been attempted, and at the return all of 0..63 have been
C7_FailuresNeverAbort ==
    /\ burst.pc \in {"first", "second"} =>
            /\ burst.seq \in 0..63
            /\ burst.tried \in {0..(burst.seq - 1), 0..burst.seq}
            /\ ENABLED (sendDeauthPacketFirst \/ sendDeauthPacketSecond)
    /\ burst.pc = "done" =>
            /\ burst.seq = 64
            /\ burst.tried = 0..63

\* C7 witness: a burst has returned after a failed packet
C7_Witness ==
    /\ burst.pc = "done"
    /\ burst.fails > 0
    /\ burst.nAP + burst.nClient < 128

\* the statistics when every frame with an 802.11 header is counted under
\* each address it carries
CollectAll(st, f) ==
    IF ~f.d11
    THEN st
    ELSE LET s1 == Collect(st, f.hdr.a1, f.len)
             s2 == Collect(s1, f.hdr.a2, f.len)
             s3 == Collect(s2, f.hdr.a3, f.len)
         IN  Collect(s3, f.hdr.a4, f.len)

\* C8: every frame the loop processes while Running adds its length to
\* TrafficStats under each address it carries, whatever its other layers
C8_EveryFrameCounted ==
    [][ \A i \in Loops :
            LoopFrame(i) =>
                \E f \in Frames :
                    /\ loops' = [loops EXCEPT ![i] = AfterModeTest(loops[i], f)]
                    /\ stats' = CollectAll(stats, f) ]_vars

\* C9: client discovery compares the frame with the AP filter value that
\* selected client discovery for that frame
C9_MatchAgainstSelectingFilter ==
    [][ \A i \in Loops :
            LoopMatch(i) =>
                /\ loops[i].sel # NoAddr
                /\ loops'[i].arg = discoverClients(loops[i].sel, loops[i].arg[1]) ]_vars

C16_Channel ==
    chan.pc = "returned" =>
        LET f == chan.freq
            q == chan.channel - 1
        IN  /\ f > 2484 => chan.channel = 0
            /\ (f >= 2412 /\ f <= 2484) =>
                    (5 * q <= f - 2412 /\ f - 2412 <= 5 * q + 4)
            /\ f < 2412 => (q <= 0 /\ 5 * q - 4 <= f - 2412 /\ f - 2412 <= 5 * q)
            /\ f = 2412 => chan.channel = 1
            /\ f = 2437 => chan.channel = 6
            /\ f = 2462 => chan.channel = 11
            /\ f = 5180 => chan.channel = 0

\* C16 witness: mhz2chan has returned 15 for 2484 MHz, the last frequency of
\* the 2.4 GHz branch
C16_Witness ==
    /\ chan.pc = "returned"
    /\ chan.freq = 2484
    /\ chan.channel = 15

\* C11: AddIfNew on an absent address creates its one Endpoint and fires
\* onNew once; on a present address it creates nothing and fires nothing,
\* it refreshes LastSeen, and the channel when that is not zero; no address
\* ever has onNew fired twice
C11_OneEndpointOneCallback ==
    [][ \A raw \in RawMACs, c \in LanCalls :
            LanAddIfNew(raw, c) =>
                LET a == Canon(raw)
                IN  /\ a \in DOMAIN lan'.hosts
                    /\ lan'.seen[a] = lan.now
                    /\ \A b \in DOMAIN lan.hosts \ {a} :
                            /\ lan'.hosts[b] = lan.hosts[b]
                            /\ lan'.seen[b] = lan.seen[b]
                    /\ \A b \in MACs : lan'.newCb[b] <= 1
                    /\ IF a \in DOMAIN lan.hosts
                       THEN /\ DOMAIN lan'.hosts = DOMAIN lan.hosts
                            /\ lan'.newCb = lan.newCb
                            /\ lan'.first = lan.first
                            /\ lan'.hosts[a].channel =
                                 IF c.channel # 0 THEN c.channel
                                 ELSE lan.hosts[a].channel
                       ELSE /\ DOMAIN lan'.hosts = DOMAIN lan.hosts \cup {a}
                            /\ lan'.newCb = [lan.newCb EXCEPT ![a] = @ + 1]
                            /\ lan'.first[a] = lan.now
                            /\ lan'.hosts[a].channel = c.channel ]_vars

\* C11 witness: an Endpoint created by AddIfNew, onNew fired once, has been
\* observed again later
C11_Witness ==
    \E a \in DOMAIN lan.hosts :
        /\ lan.newCb[a] = 1
        /\ lan.seen[a] > lan.first[a]
        /\ lan.hosts[a].channel = 6

\* C12: SetAliasFor(a, label) returns false and leaves the alias store alone
\* when a is no Endpoint of the registry, and returns true with
\* Aliases().Get(a) = label when it is one
C12_SetAliasFor ==
    [][ \A a \in MACs, l \in Labels :
            LanSetAliasFor(a, l) =>
                /\ lan'.out.val = (a \in DOMAIN lan.hosts)
                /\ lan'.out.val => Get(lan'.alias, a) = l
                /\ ~lan'.out.val => lan'.alias = lan.alias
                /\ lan'.hosts = lan.hosts ]_vars

\* C12 witness: SetAliasFor has returned true for an Endpoint that had no
\* alias stored, while another address is unknown
C12_Witness ==
    /\ lan.out = [op |-> "SetAliasFor", val |-> TRUE]
    /\ 2 \in DOMAIN lan.hosts
    /\ 1 \notin DOMAIN lan.hosts
    /\ Get(lan.alias, 2) = "pc"
    /\ Get(lan.alias, 1) = ""

\* C13: WasMissed(a) is false for an unknown address and right after
\* AddIfNew created or refreshed a, true when the time since the last
\* observation of a exceeds the threshold, and once true it stays true
\* until AddIfNew observes a again
C13_WasMissed ==
    [][ LET Missed(l, a) == a \in DOMAIN l.hosts /\ l.now - l.seen[a] > Threshold
        IN  /\ \A a \in MACs :
                    LanWasMissed(a) => lan'.out.val = Missed(lan, a)
            /\ \A a \in MACs :
                    a \notin DOMAIN lan.hosts => ~WasMissed(lan, a)
            /\ \A raw \in RawMACs, c \in LanCalls :
                    LanAddIfNew(raw, c) => ~WasMissed(lan', Canon(raw))
            /\ \A a \in MACs :
                    (/\ WasMissed(lan, a)
                     /\ ~\E raw \in RawMACs, c \in LanCalls :
                            Canon(raw) = a /\ LanAddIfNew(raw, c))
                        => WasMissed(lan', a) ]_vars

\* C13 witness: WasMissed has returned true for an Endpoint last observed
\* more than the threshold ago and seen after its creation, while another
\* Endpoint, just observed, is not missed
C13_Witness ==
    /\ lan.out = [op |-> "WasMissed", val |-> TRUE]
    /\ \E a \in DOMAIN lan.hosts, b \in DOMAIN lan.hosts :
        /\ lan.now - lan.seen[a] > Threshold
        /\ lan.seen[a] > lan.first[a]
        /\ lan.seen[b] = lan.now

\* C14: AddIfNew with hasName = false never changes a stored name; with
\* hasName = true it sets the name of an Endpoint that has none, and leaves
\* a name already stored as it is
C14_FirstNameWins ==
    [][ \A raw \in RawMACs, c \in LanCalls :
            LanAddIfNew(raw, c) =>
                LET a == Canon(raw)
                IN  IF a \in DOMAIN lan.hosts
                    THEN /\ ~c.hasName =>
                                lan'.hosts[a].essid = lan.hosts[a].essid
                         /\ lan.hosts[a].essid # "" =>
                                lan'.hosts[a].essid = lan.hosts[a].essid
                         /\ (c.hasName /\ lan.hosts[a].essid = "") =>
                                lan'.hosts[a].essid = c.essid
                    ELSE lan'.hosts[a].essid = IF c.hasName THEN c.essid ELSE "" ]_vars

\* C14 witness: an Endpoint registered without a name and without callback
\* carries the name "lab-net" and was observed again after it was created
C14_Witness ==
    \E a \in DOMAIN lan.hosts :
        /\ lan.newCb[a] = 0
        /\ lan.hosts[a].essid = "lab-net"
        /\ lan.seen[a] > lan.first[a]

\* C15: an Endpoint of the WiFi registry stays in it over every step of the
\* engine but the AP-filter commands, which clear the registry
C15_NeverDeletedAutomatically ==
    [][ \/ DOMAIN stations \subseteq DOMAIN stations'
        \/ \E m \in MACs : SetBS(m)
        \/ ClearBS ]_vars

\* C17: no step lowers a TrafficStats counter, only a processed frame
\* changes one, and the counters start at 0
C17_StatsMonotone ==
    [][ /\ \A a \in Addrs : stats'[a] >= stats[a]
        /\ stats' # stats => \E i \in Loops : LoopFrame(i)
        /\ (nhandles = 0 /\ ~running) => \A a \in Addrs : stats[a] = 0 ]_vars

\* C17 witness: after a Stop and a second Start, with the registry empty,
\* a counter still holds what was collected
C17_Witness ==
    /\ nhandles > 1
    /\ running
    /\ stations = NoStations
    /\ \E a \in Addrs : stats[a] > 1

\* loop i takes the frames its handle delivers and updates stats and registry
Processing(i) ==
    \/ loops[i].pc \in {"match", "add"}
    \/ /\ loops[i].pc = "reading"
       /\ loops[i].h \in opened
       /\ running

\* C18: at no time do two capture loops read frames and update the registry
\* and the statistics
C18_AtMostOneLoop ==
    Cardinality({i \in Loops : Processing(i)}) <= 1

\* C19: while an AP filter is set the registry holds only stations added by
\* client discovery, which adds them without a name: no access point added by
\* AP discovery, which adds it with its SSID
C19_OnlyClientsWhileFiltered ==
    accessPoint # NoAddr =>
        \A s \in DOMAIN stations : stations[s].essid = ""

\* C20: startDeauth() reads the registry only when there is one, and a burst
\* is written only to a capture handle that is open
C20_DeauthOnLiveEngine ==
    [][ /\ DeauthStep => (wifi /\ handle \in opened)
        /\ (StartDeauth /\ accessPoint # NoAddr /\ client = NoAddr) => wifi ]_vars

====
